---- MODULE Spec2Model ----
(***************************************************************************)
(* Image/mask preprocessing of the IWAnno datapacks:                       *)
(*   Tiling     = IWFullSceneDataset.process_data (a generator)            *)
(*   ResizeCrop = IWDataset.process_data          (a generator)            *)
(*   PadCrop    = TopLeftPad.process_data         (an eager function)      *)
(* An array is a record [h, w, ch, px]: h rows, w columns, ch channels     *)
(* (ch = 0 for a 2-D array), px a function from <<row, col>> to the tuple  *)
(* of channel values of that pixel (a 2-D array holds 1-tuples).  Images   *)
(* read by cv2.imread are in B, G, R channel order.                        *)
(* The operators compute whole arrays.  The state keeps, of every array    *)
(* handed to the caller, its shape and the set of its pixel values (its    *)
(* digest); the pixels themselves are recomputed from the file on disk,    *)
(* which no operation of the program modifies.                             *)
(***************************************************************************)
EXTENDS Integers, Sequences, FiniteSets, TLC

\* Largest height/width of the files of Spec, largest sample size of Spec.
MaxDim == 5
MaxSize == 4

Strategies == {"Tiling", "ResizeCrop", "PadCrop"}

Max(a, b) == IF a >= b THEN a ELSE b
Min(a, b) == IF a <= b THEN a ELSE b

Idx(h, w) == (0 .. (h - 1)) \X (0 .. (w - 1))

\* ------------------------------------------------------------ colour maps

\* RGB triplets used by the mask files of the model.
Black == <<0, 0, 0>>
White == <<255, 255, 255>>
Gray128 == <<128, 128, 128>>
Red == <<255, 0, 0>>
Green == <<0, 255, 0>>
Palette == {Black, White, Gray128, Red, Green}

\* The class attribute color_map, an ordered mapping: a sequence of
\* <<RGB triplet, class index>> entries in dict order.
color_map_literal == << <<Black, 0>>, <<White, 1>> >>

Keys(cm) == {cm[i][1] : i \in DOMAIN cm}

\* dict lookup cm[key] (the last entry of a key wins).
Lookup(cm, key) ==
    LET is == {i \in DOMAIN cm : cm[i][1] = key}
    IN  cm[CHOOSE i \in is : \A j \in is : j <= i][2]

\* (c0 << 16) | (c1 << 8) | c2 on uint32.  The channel values are bytes, so
\* each operand occupies its own bit field: the bitwise or is a sum, and the
\* sum is below 2^24 (no uint32 wrap-around).
PackBadShift(p) == p[1] * 256 + p[2] * 256 + p[3]
Pack(p) == p[1] * 65536 + p[2] * 256 + p[3]

\* dict(zip(color_keys_encoded, color_map.values())): packed key -> index,
\* as a set of pairs; a later entry of the same packed key replaces an
\* earlier one.
PackedTable(cm) ==
    {<<Pack(cm[i][1]), cm[i][2]>> : i \in
        {i \in DOMAIN cm : \A j \in DOMAIN cm : Pack(cm[j][1]) = Pack(cm[i][1]) => j <= i}}

TableKeys(t) == {e[1] : e \in t}
TableGet(t, k) == (CHOOSE e \in t : e[1] = k)[2]

\* ndarray.astype(np.uint8) of a non-negative integer.
AsUint8(v) == v % 256

\* --------------------------------------------------------------- files

\* A file pair on disk.  The image is uniform in colour; the mask is `base`
\* everywhere except one pixel (`spot`) in its first or its last position.
ImageBGR == <<30, 20, 10>>

MkFile(ih, iw, ich, iok, mh, mw, mok, base, spot, at) ==
    [img  |-> [exists |-> iok, h |-> ih, w |-> iw, ch |-> ich],
     mask |-> [exists |-> mok, h |-> mh, w |-> mw, base |-> base, spot |-> spot, at |-> at]]

Bgr(rgb) == <<rgb[3], rgb[2], rgb[1]>>

\* Python's None where an array is expected.
None == [h |-> 0, w |-> 0, ch |-> -1, px |-> <<>>]
IsNone(a) == a.ch = -1

\* cv2.imread(image_path, cv2.IMREAD_UNCHANGED): None when the file cannot be
\* read, else the stored channels: 2-D for a grayscale file, BGR for a colour
\* file, BGRA for a file with alpha.
imread_unchanged(f) ==
    IF ~f.img.exists THEN None
    ELSE [h |-> f.img.h, w |-> f.img.w, ch |-> IF f.img.ch = 1 THEN 0 ELSE f.img.ch,
          px |-> [p \in Idx(f.img.h, f.img.w) |->
                    CASE f.img.ch = 1 -> <<ImageBGR[2]>>
                      [] f.img.ch = 3 -> ImageBGR
                      [] OTHER -> ImageBGR \o <<255>>]]

SpotPos(m) == IF m.at = "first" THEN <<0, 0>> ELSE <<m.h - 1, m.w - 1>>

\* cv2.imread(mask_path, cv2.IMREAD_COLOR): always a 3-channel BGR array.
imread_color(f) ==
    IF ~f.mask.exists THEN None
    ELSE [h |-> f.mask.h, w |-> f.mask.w, ch |-> 3,
          px |-> [p \in Idx(f.mask.h, f.mask.w) |->
                    Bgr(IF p = SpotPos(f.mask) THEN f.mask.spot ELSE f.mask.base)]]

\* ------------------------------------------------------- array operations

\* a.shape[-1]: the channel count of a 3-D array, the width of a 2-D one.
ShapeLast(a) == IF a.ch = 0 THEN a.w ELSE a.ch

\* cv2.cvtColor(image, cv2.COLOR_BGRA2BGR) drops the alpha channel; it
\* rejects (cv2.error) an input that does not have 4 channels.
BGRA2BGR_ok(a) == a.ch = 4
BGRA2BGR(a) == [a EXCEPT !.ch = 3, !.px = [p \in DOMAIN a.px |-> SubSeq(a.px[p], 1, 3)]]

\* cv2.cvtColor(image, cv2.COLOR_GRAY2BGR) repeats the single channel.
GRAY2BGR(a) ==
    [a EXCEPT !.ch = 3, !.px = [p \in DOMAIN a.px |-> <<a.px[p][1], a.px[p][1], a.px[p][1]>>]]

\* cv2.cvtColor(mask, cv2.COLOR_BGR2RGB) swaps the first and third channel.
BGR2RGB(a) == [a EXCEPT !.px = [p \in DOMAIN a.px |-> <<a.px[p][3], a.px[p][2], a.px[p][1]>>]]

\* cv2.cvtColor(mask, cv2.COLOR_RGB2GRAY) on bytes: 0.299 R + 0.587 G + 0.114 B
\* in 14-bit fixed point, rounded; the result is a 2-D array.
GrayOf(rgb) == (rgb[1] * 4899 + rgb[2] * 9617 + rgb[3] * 1868 + 8192) \div 16384
RGB2GRAY(a) == [a EXCEPT !.ch = 0, !.px = [p \in DOMAIN a.px |-> <<GrayOf(a.px[p])>>]]

\* cv2.threshold(src, thresh, maxval, cv2.THRESH_BINARY):
\* dst = maxval where src > thresh, else 0.
threshold(a, thresh, maxval) ==
    [a EXCEPT !.px = [p \in DOMAIN a.px |-> <<IF a.px[p][1] > thresh THEN maxval ELSE 0>>]]

\* cv2.merge([x, x, x]) of a 2-D array.
merge3(a) == [a EXCEPT !.ch = 3, !.px = [p \in DOMAIN a.px |-> <<a.px[p][1], a.px[p][1], a.px[p][1]>>]]

\* Nearest source index of destination index i when n_src samples are
\* resized to n_dst (cv2.INTER_NEAREST): min(floor(i * n_src / n_dst), n_src - 1).
NearestIndex(i, n_src, n_dst) == Min((i * n_src) \div n_dst, n_src - 1)

\* cv2.resize(mask, (nw, nh), interpolation=cv2.INTER_NEAREST).
resize_nearest(a, nw, nh) ==
    [a EXCEPT !.h = nh, !.w = nw,
              !.px = [p \in Idx(nh, nw) |->
                        a.px[<<NearestIndex(p[1], a.h, nh), NearestIndex(p[2], a.w, nw)>>]]]

\* cv2.resize(image, (nw, nh), interpolation=cv2.INTER_LINEAR / INTER_AREA).
\* Every image file of the model is uniform in colour, and an interpolation
\* kernel (weights summing to one) maps a uniform image to the same colour;
\* the kernel is represented by the source pixel under the destination one.
resize_interp(a, nw, nh) ==
    [a EXCEPT !.h = nh, !.w = nw,
              !.px = [p \in Idx(nh, nw) |->
                        a.px[<<NearestIndex(p[1], a.h, nh), NearestIndex(p[2], a.w, nw)>>]]]

\* a[row:row+size, col:col+size]: numpy clips a slice at the array's edge.
Slice(a, row, col, size) ==
    LET nh == Max(0, Min(row + size, a.h) - Min(row, a.h))
        nw == Max(0, Min(col + size, a.w) - Min(col, a.w))
    IN  [a EXCEPT !.h = nh, !.w = nw,
                  !.px = [p \in Idx(nh, nw) |-> a.px[<<p[1] + row, p[2] + col>>]]]

\* Normalize(mean=[0.485, 0.456, 0.406], std=[0.229, 0.224, 0.225]), in
\* thousandths.
MEAN == <<485, 456, 406>>
STD == <<229, 224, 225>>

\* x.astype(np.float32) / 255.0, then (x - mean[c]) / std[c] on channel c:
\* the exact value as <<numerator, denominator>>,
\* (v/255 - mean/1000) / (std/1000) = (1000 v - 255 mean) / (255 std).
NormalizeValue(v, c) == <<1000 * v - 255 * MEAN[c], 255 * STD[c]>>
NormalizePixel(v) == [c \in 1 .. 3 |-> NormalizeValue(v[c], c)]

\* astype(float32)/255 -> permute(2,0,1) -> normalize -> permute(1,2,0) on a
\* 3-channel array.
NormalizeImage(a) == [a EXCEPT !.px = [p \in DOMAIN a.px |-> NormalizePixel(a.px[p])]]

\* Python round(): to nearest, ties to even, of n / d (n >= 0, d > 0).
Round(n, d) ==
    LET q == n \div d
        r == n % d
    IN  IF 2 * r < d THEN q
        ELSE IF 2 * r > d THEN q + 1
        ELSE IF q % 2 = 0 THEN q ELSE q + 1

\* scipy.ndimage.zoom(a, (size/h, size/w), order=0) of a 2-D array: the
\* output shape is round(h * (size/h)) x round(w * (size/w)); output index i
\* reads the input at floor(i * (n_in - 1) / (n_out - 1) + 0.5).
ZoomIndex(i, n_in, n_out) ==
    IF n_out = 1 THEN i ELSE (2 * i * (n_in - 1) + (n_out - 1)) \div (2 * (n_out - 1))
zoom_order0(a, size) ==
    LET nh == Round(a.h * size, a.h)
        nw == Round(a.w * size, a.w)
    IN  [a EXCEPT !.h = nh, !.w = nw,
                  !.px = [p \in Idx(nh, nw) |->
                            a.px[<<ZoomIndex(p[1], a.h, nh), ZoomIndex(p[2], a.w, nw)>>]]]

\* What the state keeps of an array: its shape and its set of pixel values.
Digest(a) == [h |-> a.h, w |-> a.w, ch |-> a.ch, values |-> {a.px[p] : p \in DOMAIN a.px}]
DigestSample(smp) == [image |-> Digest(smp.image), mask |-> Digest(smp.mask), origin |-> smp.origin]

\* ------------------------------------------------------ results of a step

\* A step either succeeds with a value or raises the exception `err`.
\* What the message of an unknown-colour exception is built from: the packed
\* colour values and the mask file path (a sequence holding the file, empty
\* when the message names none).  Other exceptions are kept by type alone.
NoArgs == [values |-> {}, path |-> <<>>]

Ok(v) == [err |-> "", val |-> v, args |-> NoArgs]
Raise(e) == [err |-> e, val |-> None, args |-> NoArgs]
RaiseWith(e, values, path) == [err |-> e, val |-> None, args |-> [values |-> values, path |-> path]]

FileNotFoundError == "FileNotFoundError"
ImageTooSmall == "ValueError: image is smaller than crop size"
UnknownColor == "ValueError: unknown pixel values in mask"
RangeStepZero == "ValueError: range() arg 3 must not be zero"
VectorizeEmpty == "ValueError: cannot call vectorize on size 0 inputs"
VectorizeNone == "TypeError: int() argument must not be NoneType"
BroadcastError == "ValueError: could not broadcast input array"
Cv2Error == "cv2.error"
TorchError == "RuntimeError"

\* ------------------------------------------------- Tiling (IWFullSceneDataset)

\* apply_color_map: pack every pixel, look it up in the table built from
\* color_map.  np.vectorize refuses an empty input; it takes the output type
\* from the first element's result, so a None after an integer first result
\* is a TypeError, and only a None first result yields the object array on
\* which the None test raises the unknown-pixel ValueError.
IWFullScene_apply_color_map(cm, mask) ==
    LET mask_encoded(p) == Pack(mask.px[p])
        color_to_index == PackedTable(cm)
        IsNoneAt(p) == mask_encoded(p) \notin TableKeys(color_to_index)
        any_none == \E p \in DOMAIN mask.px : IsNoneAt(p)
    IN  IF mask.h = 0 \/ mask.w = 0 THEN Raise(VectorizeEmpty)
        ELSE IF any_none /\ ~IsNoneAt(<<0, 0>>) THEN Raise(VectorizeNone)
        ELSE IF any_none THEN Raise(UnknownColor)
        ELSE Ok([mask EXCEPT !.ch = 0,
                             !.px = [p \in DOMAIN mask.px |->
                                       <<AsUint8(TableGet(color_to_index, mask_encoded(p)))>>]])

\* The generator body up to the loops: read both files, bring the image to
\* 3 channels, compute the stride, reject an image smaller than the tile.
TilingStrideQuarter(size) == size \div 4
TilingStride(size) == size \div 2

TilingTooSmall(height, width, size) == height < size \/ width < size

IWFullScene_open(f, size) ==
    LET image0 == imread_unchanged(f)
        mask == imread_color(f)
    IN  IF IsNone(image0) \/ IsNone(mask) THEN Raise(FileNotFoundError)
        ELSE IF ShapeLast(image0) = 4 /\ ~BGRA2BGR_ok(image0) THEN Raise(Cv2Error)
        ELSE LET image == IF ShapeLast(image0) = 4 THEN BGRA2BGR(image0)
                          ELSE IF image0.ch = 0 THEN GRAY2BGR(image0)
                          ELSE image0
             IN  IF TilingTooSmall(image.h, image.w, size) THEN Raise(ImageTooSmall)
                 ELSE IF TilingStride(size) = 0 THEN Raise(RangeStepZero)
                 ELSE Ok([image |-> image, mask |-> mask])

\* One iteration of the loop body: crop, decode the mask, normalize, yield.
\* `origin` records where the tile was cut (not part of the yielded pair).
IWFullScene_tile(cm, image, mask, row, col, size) ==
    LET cropped_image == Slice(image, row, col, size)
        cropped_mask == Slice(mask, row, col, size)
        processed_mask == IWFullScene_apply_color_map(cm, cropped_mask)
    IN  IF processed_mask.err # "" THEN processed_mask
        ELSE Ok([image |-> NormalizeImage(cropped_image),
                 mask |-> processed_mask.val,
                 origin |-> <<row, col>>])

\* The loop heads: the origin after <<row, col>> in
\* for row in range(0, height - size + 1, step):
\*     for col in range(0, width - size + 1, step):
\* or <<-1, -1>> when both ranges are exhausted.
NextOriginColMajor(row, col, height, width, size) ==
    LET step == TilingStride(size)
    IN  IF row + step < height - size + 1 THEN <<row + step, col>>
        ELSE IF col + step < width - size + 1 THEN <<0, col + step>>
        ELSE <<-1, -1>>
NextOriginPastEdge(row, col, height, width, size) ==
    LET step == TilingStride(size)
    IN  IF col + step <= width - size + 1 THEN <<row, col + step>>
        ELSE IF row + step <= height - size + 1 THEN <<row + step, 0>>
        ELSE <<-1, -1>>
NextOrigin(row, col, height, width, size) ==
    LET step == TilingStride(size)
    IN  IF col + step < width - size + 1 THEN <<row, col + step>>
        ELSE IF row + step < height - size + 1 THEN <<row + step, 0>>
        ELSE <<-1, -1>>

\* ---------------------------------------------------- ResizeCrop (IWDataset)

\* The inline colour decode of IWDataset.process_data (same np.vectorize
\* lookup as above).
IWDataset_decode(cm, mask) ==
    LET mask_encoded(p) == Pack(mask.px[p])
        color_to_index == PackedTable(cm)
        IsNoneAt(p) == mask_encoded(p) \notin TableKeys(color_to_index)
        any_none == \E p \in DOMAIN mask.px : IsNoneAt(p)
    IN  IF any_none /\ ~IsNoneAt(<<0, 0>>) THEN Raise(VectorizeNone)
        ELSE IF any_none
        THEN RaiseWith(UnknownColor, {mask_encoded(p) : p \in {q \in DOMAIN mask.px : IsNoneAt(q)}}, <<>>)
        ELSE Ok([mask EXCEPT !.ch = 0,
                             !.px = [p \in DOMAIN mask.px |->
                                       <<AsUint8(TableGet(color_to_index, mask_encoded(p)))>>]])

\* The binarize step: RGB -> gray -> threshold 128 -> three equal channels.
IWDataset_binarize(mask) == merge3(threshold(RGB2GRAY(mask), 128, 255))

\* The whole generator body, up to its single yield.
IWDataset_body(cm, f, size) ==
    LET image0 == imread_unchanged(f)
    IN  IF IsNone(image0) THEN Raise(FileNotFoundError)
        ELSE LET image == resize_interp(image0, size, size)
             IN  IF image.ch = 0 THEN Raise(TorchError)       \* permute(2, 0, 1) of a 2-D tensor
                 ELSE IF image.ch # 3 THEN Raise(TorchError)  \* 3 means on 4 channels
                 ELSE IF ~f.mask.exists THEN Raise(FileNotFoundError)
                 ELSE LET mask == IWDataset_binarize(BGR2RGB(imread_color(f)))
                          indexed_mask == IWDataset_decode(cm, mask)
                      IN  IF indexed_mask.err = UnknownColor
                          THEN RaiseWith(UnknownColor, indexed_mask.args.values, <<f.mask>>)
                          ELSE IF indexed_mask.err # "" THEN indexed_mask
                          ELSE Ok([image |-> NormalizeImage(image),
                                   mask |-> zoom_order0(indexed_mask.val, size),
                                   origin |-> <<0, 0>>])

\* -------------------------------------------------------- PadCrop (TopLeftPad)

\* _COLOR_TO_INDEX, the class attribute computed once from color_map.
TopLeftPad_table(cm) == PackedTable(cm)

\* apply_color_map: -1 where no key matches, then the -1 test.
TopLeftPad_apply_color_map(table, mask) ==
    LET encoded(p) == Pack(mask.px[p])
        indexed_mask(p) == IF encoded(p) \in TableKeys(table)
                           THEN TableGet(table, encoded(p)) ELSE -1
    IN  IF \E p \in DOMAIN mask.px : indexed_mask(p) = -1 THEN Raise(UnknownColor)
        ELSE Ok([mask EXCEPT !.ch = 0,
                             !.px = [p \in DOMAIN mask.px |-> <<AsUint8(indexed_mask(p))>>]])

\* np.zeros((size, size, 3)).
Zeros(size) == [h |-> size, w |-> size, ch |-> 3, px |-> [p \in Idx(size, size) |-> <<0, 0, 0>>]]

\* canvas[:nh, :nw] = a, with numpy's broadcasting of a dimension of length 1.
CanBroadcast(a, nh, nw) == a.h \in {nh, 1} /\ a.w \in {nw, 1}
PasteBottomRight(canvas, a, nh, nw) ==
    [canvas EXCEPT !.px = [p \in DOMAIN canvas.px |->
        IF p[1] >= canvas.h - nh /\ p[2] >= canvas.w - nw
        THEN a.px[<<IF a.h = 1 THEN 0 ELSE p[1] - (canvas.h - nh),
                    IF a.w = 1 THEN 0 ELSE p[2] - (canvas.w - nw)>>]
        ELSE canvas.px[p]]]
PasteTopLeft(canvas, a, nh, nw) ==
    [canvas EXCEPT !.px = [p \in DOMAIN canvas.px |->
        IF p[1] < nh /\ p[2] < nw
        THEN a.px[<<IF a.h = 1 THEN 0 ELSE p[1], IF a.w = 1 THEN 0 ELSE p[2]>>]
        ELSE canvas.px[p]]]

\* Whether PadCrop resizes, and the target size of the resize.
PadResizesAlways(height, width, size) == height >= 0 \/ width >= size
PadResizes(height, width, size) == height >= size \/ width >= size
PadNewSizeStretch(height, width, size) == <<size, size>>
PadNewSize(height, width, size) ==
    <<Round(height * size, Max(height, width)), Round(width * size, Max(height, width))>>

\* The whole function; its value is the tuple ([image], [mask]).
TopLeftPad_process_data(table, f, size) ==
    LET image0 == imread_unchanged(f)
        mask0 == imread_color(f)
    IN  IF IsNone(image0) \/ IsNone(mask0) THEN Raise(FileNotFoundError)
        ELSE
        LET image1 == IF image0.ch = 0 THEN GRAY2BGR(image0)
                      ELSE IF image0.ch = 4 THEN BGRA2BGR(image0)
                      ELSE image0
            resizes == PadResizes(image1.h, image1.w, size)
            new == IF resizes THEN PadNewSize(image1.h, image1.w, size)
                   ELSE <<image1.h, image1.w>>
        IN  IF resizes /\ (new[1] = 0 \/ new[2] = 0) THEN Raise(Cv2Error)
            ELSE
            LET image == IF resizes THEN resize_interp(image1, new[2], new[1]) ELSE image1
                mask == IF resizes THEN resize_nearest(mask0, new[2], new[1]) ELSE mask0
            IN  IF ~CanBroadcast(mask, new[1], new[2]) THEN Raise(BroadcastError)
                ELSE
                LET padded_image == PasteTopLeft(Zeros(size), image, new[1], new[2])
                    padded_mask == PasteTopLeft(Zeros(size), mask, new[1], new[2])
                    processed_mask == TopLeftPad_apply_color_map(table, padded_mask)
                IN  IF processed_mask.err # "" THEN processed_mask
                    ELSE Ok(<< <<NormalizeImage(padded_image)>>, <<processed_mask.val>> >>)

\* ------------------------------------------------------------- the state

VARIABLES
    files,            \* file id -> the file pair on disk
    img_size,         \* the configured sample size passed to every call
    color_map,        \* strategy -> the class attribute color_map
    COLOR_TO_INDEX,   \* TopLeftPad._COLOR_TO_INDEX
    calls,            \* call slot -> the state of a process_data call
    abandoned         \* history: a Tiling generator was dropped before its end

vars == <<files, img_size, color_map, COLOR_TO_INDEX, calls, abandoned>>

\* The call slots and file ids a specification may use.
CallIds == {1, 2}
FileIds == {1, 2}

\* A process_data call.  pc: "none" (no call), "created" (generator object
\* made, body not started), "suspended" (at a yield), "exhausted"
\* (StopIteration), "raised" (an exception left the body), "returned"
\* (PadCrop's function returned).  row, col: the loop variables of Tiling.
\* err, args: the exception that ended the call and what it carries.
\* out: what next() has delivered so far.  ret: PadCrop's return value, the
\* tuple ([image], [mask]).  Arrays are kept as digests.
NoCall ==
    [pc |-> "none", strategy |-> "", file |-> 0, row |-> 0, col |-> 0,
     out |-> <<>>, ret |-> <<>>, err |-> "", args |-> NoArgs]

\* The call record after TopLeftPad.process_data returned or raised r.
PadCropReturn(f, r) ==
    [NoCall EXCEPT !.pc = IF r.err = "" THEN "returned" ELSE "raised",
                   !.strategy = "PadCrop", !.file = f,
                   !.ret = IF r.err = "" THEN << <<Digest(r.val[1][1])>>, <<Digest(r.val[2][1])>> >>
                           ELSE <<>>,
                   !.err = r.err, !.args = r.args]

\* Calling process_data.  A generator function only creates the generator;
\* TopLeftPad.process_data runs to its return or its exception.
CallOpensEagerly(c, s, f) ==
    /\ c \in DOMAIN calls /\ f \in DOMAIN files
    /\ calls[c].pc = "none"
    /\ IF s = "PadCrop"
       THEN calls' = [calls EXCEPT ![c] =
                PadCropReturn(f, TopLeftPad_process_data(COLOR_TO_INDEX, files[f], img_size))]
       ELSE IF s = "Tiling" /\ IWFullScene_open(files[f], img_size).err # ""
       THEN calls' = [calls EXCEPT ![c] =
                [NoCall EXCEPT !.pc = "raised", !.strategy = s, !.file = f,
                               !.err = IWFullScene_open(files[f], img_size).err]]
       ELSE calls' = [calls EXCEPT ![c] = [NoCall EXCEPT !.pc = "created", !.strategy = s, !.file = f]]
    /\ UNCHANGED <<files, img_size, color_map, COLOR_TO_INDEX, abandoned>>
Call(c, s, f) ==
    /\ c \in DOMAIN calls /\ f \in DOMAIN files
    /\ calls[c].pc = "none"
    /\ IF s = "PadCrop"
       THEN calls' = [calls EXCEPT ![c] =
                PadCropReturn(f, TopLeftPad_process_data(COLOR_TO_INDEX, files[f], img_size))]
       ELSE calls' = [calls EXCEPT ![c] = [NoCall EXCEPT !.pc = "created", !.strategy = s, !.file = f]]
    /\ UNCHANGED <<files, img_size, color_map, COLOR_TO_INDEX, abandoned>>

\* The loop variables of call c's generator frame: each generator object has
\* its own.
CursorShared(c) ==
    LET others == {k \in DOMAIN calls : k # c /\ calls[k].strategy = "Tiling"
                                        /\ calls[k].pc = "suspended"}
    IN  IF others = {} THEN <<calls[c].row, calls[c].col>>
        ELSE LET k == CHOOSE k \in others : TRUE IN <<calls[k].row, calls[k].col>>
Cursor(c) == <<calls[c].row, calls[c].col>>

\* next() on Tiling's generator: from the start, or from the last yield, to
\* the next yield, the end of the loops or an exception.
TilingYield(g, tile, origin) ==
    IF tile.err # ""
    THEN [g EXCEPT !.pc = "raised", !.err = tile.err, !.args = tile.args,
                   !.row = origin[1], !.col = origin[2]]
    ELSE [g EXCEPT !.pc = "suspended", !.row = origin[1], !.col = origin[2],
                   !.out = Append(@, DigestSample(tile.val))]

TilingResume(g, opened, origin) ==
    IF origin = <<-1, -1>> THEN [g EXCEPT !.pc = "exhausted"]
    ELSE TilingYield(g, IWFullScene_tile(color_map["Tiling"], opened.image, opened.mask,
                                         origin[1], origin[2], img_size), origin)

TilingRun(g, cursor, opened) ==
    IF opened.err # "" THEN [g EXCEPT !.pc = "raised", !.err = opened.err, !.args = opened.args]
    ELSE TilingResume(g, opened.val,
                      IF g.pc = "created" THEN <<0, 0>>
                      ELSE NextOrigin(cursor[1], cursor[2], opened.val.image.h,
                                      opened.val.image.w, img_size))

AdvanceTilingSharedImage(c) ==
    LET others == {k \in DOMAIN calls : k # c /\ calls[k].pc # "none"}
        src == IF others = {} THEN c ELSE CHOOSE k \in others : TRUE
    IN  TilingRun(calls[c], Cursor(c), IWFullScene_open(files[calls[src].file], img_size))
AdvanceTiling(c) ==
    TilingRun(calls[c], Cursor(c), IWFullScene_open(files[calls[c].file], img_size))

\* next() on ResizeCrop's generator: the body up to its one yield, then the end.
ResizeCropYield(g, r) ==
    IF r.err # "" THEN [g EXCEPT !.pc = "raised", !.err = r.err, !.args = r.args]
    ELSE [g EXCEPT !.pc = "suspended", !.out = Append(@, DigestSample(r.val))]

AdvanceResizeCrop(c) ==
    IF calls[c].pc = "suspended" THEN [calls[c] EXCEPT !.pc = "exhausted"]
    ELSE ResizeCropYield(calls[c],
                         IWDataset_body(color_map["ResizeCrop"], files[calls[c].file], img_size))

Advance(c) ==
    /\ c \in DOMAIN calls
    /\ calls[c].pc \in {"created", "suspended"}
    /\ calls' = [calls EXCEPT ![c] =
                    IF calls[c].strategy = "Tiling" THEN AdvanceTiling(c)
                    ELSE AdvanceResizeCrop(c)]
    /\ UNCHANGED <<files, img_size, color_map, COLOR_TO_INDEX, abandoned>>

\* The caller drops the generator or the returned lists.
CloseClobbersColorMap(c) ==
    /\ c \in DOMAIN calls
    /\ calls[c].pc # "none"
    /\ calls' = [calls EXCEPT ![c] = NoCall]
    /\ abandoned' = (abandoned \/ (calls[c].strategy = "Tiling"
                                     /\ calls[c].pc \in {"created", "suspended"}))
    /\ color_map' = [color_map EXCEPT ![calls[c].strategy] = <<>>]
    /\ UNCHANGED <<files, img_size, COLOR_TO_INDEX>>
Close(c) ==
    /\ c \in DOMAIN calls
    /\ calls[c].pc # "none"
    /\ calls' = [calls EXCEPT ![c] = NoCall]
    /\ abandoned' = (abandoned \/ (calls[c].strategy = "Tiling"
                                     /\ calls[c].pc \in {"created", "suspended"}))
    /\ UNCHANGED <<files, img_size, color_map, COLOR_TO_INDEX>>

Next ==
    \E c \in CallIds :
        \/ \E s \in Strategies, f \in FileIds : Call(c, s, f)
        \/ Advance(c)
        \/ Close(c)

\* ------------------------------------------------------------ the inputs

Dims == 1 .. MaxDim
Sizes == 1 .. MaxSize

\* Files whose mask has the image's size: every size, every mask content.
ContentFiles ==
    {MkFile(h, w, 3, TRUE, h, w, TRUE, base, spot, at) :
        h \in Dims, w \in Dims, base \in {Black, White}, spot \in Palette,
        at \in {"first", "last"}}

\* Grayscale and alpha images.
ChannelFiles ==
    {MkFile(h, w, ch, TRUE, h, w, TRUE, Black, White, "last") :
        h \in Dims, w \in Dims, ch \in {1, 4}}

\* Masks whose size differs from the image's.
ShapeFiles ==
    {MkFile(d[1], d[2], 3, TRUE, m[1], m[2], TRUE, White, White, "last") :
        d \in Dims \X Dims, m \in (1 .. (MaxDim + 1)) \X (1 .. (MaxDim + 1))} \cap
    {x \in [img : [exists : {TRUE}, h : Dims, w : Dims, ch : {3}],
            mask : [exists : {TRUE}, h : 1 .. (MaxDim + 1), w : 1 .. (MaxDim + 1),
                    base : {White}, spot : {White}, at : {"last"}]] :
        <<x.mask.h, x.mask.w>> \in
            {<<x.img.h - 1, x.img.w - 1>>, <<x.img.h + 1, x.img.w + 1>>,
             <<1, x.img.w>>, <<1, 1>>} \ {<<x.img.h, x.img.w>>}}

\* Files that cannot be opened.
MissingFiles ==
    {MkFile(2, 2, 3, FALSE, 2, 2, mok, Black, White, "last") : mok \in BOOLEAN} \cup
    {MkFile(2, 2, ch, TRUE, 2, 2, FALSE, Black, White, "last") : ch \in {1, 3, 4}}

InputFiles == ContentFiles \cup ChannelFiles \cup ShapeFiles \cup MissingFiles

\* The two scenes of the specification's scenarios, 300 x 300 and 100 x 150,
\* processed with sample size 224.
ScenarioFiles ==
    {MkFile(d[1], d[2], 3, TRUE, d[1], d[2], TRUE, Black, White, "last") :
        d \in {<<300, 300>>, <<100, 150>>}}

\* An input: the files on disk (file id -> file pair) and the sample size.
OneFileInputs ==
    {<<[i \in {1} |-> f], s>> : f \in InputFiles, s \in Sizes} \cup
    {<<[i \in {1} |-> f], 224>> : f \in ScenarioFiles}

InitWith(inputs, callids) ==
    /\ \E in \in inputs : files = in[1] /\ img_size = in[2]
    /\ color_map = [s \in Strategies |-> color_map_literal]
    /\ COLOR_TO_INDEX = TopLeftPad_table(color_map_literal)
    /\ calls = [c \in callids |-> NoCall]
    /\ abandoned = FALSE

\* One caller processing one file.
Init == InitWith(OneFileInputs, {1})

Spec == Init /\ [][Next]_vars

\* Two callers (two generator objects) over one file.
TwoCallFiles ==
    {MkFile(h, w, 3, TRUE, h, w, TRUE, Black, spot, "last") :
        h \in Dims, w \in Dims, spot \in {White, Red}}

TwoCallInputs == {<<[i \in {1} |-> f], s>> : f \in TwoCallFiles, s \in Sizes}

InitTwoCalls == InitWith(TwoCallInputs, {1, 2})

SpecTwoCalls == InitTwoCalls /\ [][Next]_vars

\* One caller, with the class attribute color_map set to other colour maps
\* than the shipped one: a map of 257 classes (class 256 has the colour
\* (0, 1, 0)) and a map whose keys differ in their red and blue channels.
MaxMapDim == 2

Blue == <<0, 0, 255>>
Class256Color == <<0, 1, 0>>

WideColorMap == [i \in 1 .. 257 |-> << <<0, (i - 1) \div 256, (i - 1) % 256>>, i - 1 >>]
RedBlueColorMap == << <<Black, 0>>, <<Red, 1>>, <<Blue, 2>> >>

ColorMaps == {color_map_literal, WideColorMap, RedBlueColorMap}

ColorMapFiles ==
    {MkFile(h, w, 3, TRUE, h, w, TRUE, Black, spot, "last") :
        h \in 1 .. MaxMapDim, w \in 1 .. MaxMapDim,
        spot \in {Black, White, Class256Color, Red, Blue}}

InitColorMaps ==
    /\ \E f \in ColorMapFiles : files = [i \in {1} |-> f]
    /\ img_size \in 1 .. MaxMapDim
    /\ \E cm \in ColorMaps :
          /\ color_map = [s \in Strategies |-> cm]
          /\ COLOR_TO_INDEX = TopLeftPad_table(cm)
    /\ calls = [c \in {1} |-> NoCall]
    /\ abandoned = FALSE

SpecColorMaps == InitColorMaps /\ [][Next]_vars

\* Two callers over two different files on disk.
TwoFileInputs ==
    {<<[i \in {1, 2} |-> IF i = 1 THEN f1 ELSE f2], s>> :
        f1 \in {MkFile(MaxDim, MaxDim - 1, 3, TRUE, MaxDim, MaxDim - 1, TRUE, Black, White, "last")},
        f2 \in {MkFile(h, w, 3, TRUE, h, w, TRUE, White, spot, "last") :
                    h \in {2, MaxDim}, w \in {2, MaxDim}, spot \in {White, Red}}
               \cup {MkFile(2, 2, 3, TRUE, 2, 2, FALSE, Black, White, "last")},
        s \in Sizes}

InitTwoFiles == InitWith(TwoFileInputs, {1, 2})

SpecTwoFiles == InitTwoFiles /\ [][Next]_vars

\* One caller that processes two files one after the other.
InitCancel == InitWith(TwoFileInputs, {1})

SpecCancel == InitCancel /\ [][Next]_vars

\* ------------------------------------------------------------ the claims

\* The (image, mask) pairs a call has handed to its caller so far: what
\* next() delivered, or the pair held by PadCrop's returned lists.
Delivered(g) ==
    IF g.strategy = "PadCrop"
    THEN IF g.pc = "returned"
         THEN <<[image |-> g.ret[1][1], mask |-> g.ret[2][1], origin |-> <<0, 0>>]>>
         ELSE <<>>
    ELSE g.out

Active == {c \in DOMAIN calls : calls[c].pc # "none"}
FileOf(c) == files[calls[c].file]

\* The colour of mask pixel p of file f, as stored in the file (RGB).
MaskColor(f, p) == IF p = SpotPos(f.mask) THEN f.mask.spot ELSE f.mask.base
MaskColors(f) == {MaskColor(f, p) : p \in Idx(f.mask.h, f.mask.w)}

\* len(range(0, stop, step)) for step > 0.
RangeLen(stop, step) == IF stop <= 0 THEN 0 ELSE (stop + step - 1) \div step

\* C1: every sample produced by any strategy, whatever the sizes of the image
\* file and of the mask file, has an image and a mask of exactly S x S.
C1_EverySampleIsSxS ==
    \A c \in Active : \A i \in DOMAIN Delivered(calls[c]) :
        LET smp == Delivered(calls[c])[i]
        IN  /\ smp.image.h = img_size /\ smp.image.w = img_size
            /\ smp.mask.h = img_size /\ smp.mask.w = img_size

\* C2: a mask file holding a pixel whose colour is no ColorMap key makes the
\* processing raise the unknown-colour error and produce no sample.
C2_UnknownColorAlwaysRaises ==
    \A c \in Active :
        (/\ FileOf(c).img.exists /\ FileOf(c).mask.exists
         /\ FileOf(c).img.ch = 3
         /\ \E col \in MaskColors(FileOf(c)) : col \notin Keys(color_map[calls[c].strategy]))
        => /\ Delivered(calls[c]) = <<>>
           /\ calls[c].pc \notin {"exhausted", "returned"}

\* C3: a fully iterated Tiling call has yielded exactly
\* len(range(0, H-S+1, S//2)) * len(range(0, W-S+1, S//2)) tiles, and every
\* image tile it yields has shape (S, S, 3).
C3_TileCount ==
    \A c \in Active :
        calls[c].strategy = "Tiling" =>
            /\ calls[c].pc = "exhausted" =>
                 Len(calls[c].out) =
                     RangeLen(FileOf(c).img.h - img_size + 1, img_size \div 2)
                   * RangeLen(FileOf(c).img.w - img_size + 1, img_size \div 2)
            /\ \A i \in DOMAIN calls[c].out :
                 /\ calls[c].out[i].image.h = img_size
                 /\ calls[c].out[i].image.w = img_size
                 /\ calls[c].out[i].image.ch = 3

\* A Tiling call iterated to its end over an image with several tile
\* origins on both axes.
C3_Witness ==
    \E c \in Active :
        /\ calls[c].strategy = "Tiling" /\ calls[c].pc = "exhausted"
        /\ Len(calls[c].out) >= 4
        /\ FileOf(c).img.h # FileOf(c).img.w

\* C4 as stated: a 300 x 300 image tiled with S = 224 gives exactly 4 tiles,
\* with origins (0,0), (0,76), (76,0), (76,76).
C4_FourTiles ==
    \A c \in Active :
        (/\ calls[c].strategy = "Tiling" /\ calls[c].pc = "exhausted"
         /\ FileOf(c).img.h = 300 /\ FileOf(c).img.w = 300 /\ img_size = 224)
        => /\ Len(calls[c].out) = 4
           /\ [i \in 1 .. 4 |-> calls[c].out[i].origin] =
                  << <<0, 0>>, <<0, 76>>, <<76, 0>>, <<76, 76>> >>

\* C4 as amended: a 300 x 300 image tiled with S = 224 (stride 112) gives
\* exactly one tile, with origin (0,0): range(0, 77, 112) = [0] on each axis.
C4_OneTile ==
    \A c \in Active :
        (/\ calls[c].strategy = "Tiling" /\ calls[c].pc = "exhausted"
         /\ FileOf(c).img.h = 300 /\ FileOf(c).img.w = 300 /\ img_size = 224)
        => /\ Len(calls[c].out) = 1
           /\ calls[c].out[1].origin = <<0, 0>>

\* The 300 x 300 scene has been tiled to the end with S = 224.
C4_Witness ==
    \E c \in Active :
        /\ calls[c].strategy = "Tiling" /\ calls[c].pc = "exhausted"
        /\ FileOf(c).img.h = 300 /\ FileOf(c).img.w = 300 /\ img_size = 224

\* C5: in ResizeCrop a mask pixel of grayscale value >= 128 decodes to
\* foreground (1) and one of grayscale value < 128 to background (0); a pixel
\* of value exactly 128 is foreground.  Stated on the masks all of whose
\* pixels fall on one side of the threshold.
C5_ThresholdInclusive ==
    \A c \in Active :
        calls[c].strategy = "ResizeCrop" =>
            \A i \in DOMAIN calls[c].out :
                /\ (\A col \in MaskColors(FileOf(c)) : GrayOf(col) >= 128)
                      => calls[c].out[i].mask.values = {<<1>>}
                /\ (\A col \in MaskColors(FileOf(c)) : GrayOf(col) < 128)
                      => calls[c].out[i].mask.values = {<<0>>}

\* The arrays PadCrop returned to call c, recomputed from the file.
PadCropArrays(c) == TopLeftPad_process_data(COLOR_TO_INDEX, FileOf(c), img_size).val
PadCropImage(c) == PadCropArrays(c)[1][1]
PadCropMask(c) == PadCropArrays(c)[2][1]

PadCropReturned(c) == calls[c].strategy = "PadCrop" /\ calls[c].pc = "returned"
PadCropSmall(c) == FileOf(c).img.h < img_size /\ FileOf(c).img.w < img_size

\* The positions of a returned image that are not padding.
ContentRegion(image) == {p \in DOMAIN image.px : image.px[p] # NormalizePixel(<<0, 0, 0>>)}

\* C6: PadCrop's image canvas and mask canvas are exactly S x S; when both
\* H < S and W < S nothing is resized: the content placed in the canvas (the
\* pixels that are not padding) has exactly the dimensions H x W.
C6_PadCanvas ==
    \A c \in Active :
        PadCropReturned(c) =>
            /\ calls[c].ret[1][1].h = img_size /\ calls[c].ret[1][1].w = img_size
            /\ calls[c].ret[2][1].h = img_size /\ calls[c].ret[2][1].w = img_size
            /\ PadCropSmall(c) =>
                 ContentRegion(PadCropImage(c)) = Idx(FileOf(c).img.h, FileOf(c).img.w)

\* PadCrop returned for an image smaller than S on both sides, not square.
C6_Witness ==
    \E c \in Active :
        /\ PadCropReturned(c) /\ PadCropSmall(c)
        /\ FileOf(c).img.h # FileOf(c).img.w

\* The pixel of the image file, after the channel fix, and what the ColorMap
\* says of mask pixel p of the file.
SourceImagePixel(f) == IF f.img.ch = 1 THEN <<ImageBGR[2], ImageBGR[2], ImageBGR[2]>> ELSE ImageBGR
SourceMaskClass(cm, f, p) == Lookup(cm, MaskColor(f, p))

SameSize(f) == f.mask.h = f.img.h /\ f.mask.w = f.img.w

\* The returned arrays hold the file's content, normalized and decoded, at
\* unchanged positions of rows 0:H, columns 0:W.
ContentInPlace(arrays, cm, f) ==
    \A p \in Idx(f.img.h, f.img.w) :
        /\ arrays[1][1].px[p] = NormalizePixel(SourceImagePixel(f))
        /\ arrays[2][1].px[p] = <<SourceMaskClass(cm, f, p)>>

\* Every position outside rows 0:H, columns 0:W is zero in image and mask.
RemainderZero(arrays, f) ==
    \A p \in DOMAIN arrays[1][1].px \ Idx(f.img.h, f.img.w) :
        /\ \A k \in 1 .. 3 : arrays[1][1].px[p][k][1] = 0
        /\ arrays[2][1].px[p] = <<0>>

\* Every position outside rows 0:H, columns 0:W holds (0 - mean) / std in
\* the image, which is not zero, and class 0 in the mask.
RemainderNormalizedZero(arrays, f) ==
    \A p \in DOMAIN arrays[1][1].px \ Idx(f.img.h, f.img.w) :
        /\ \A k \in 1 .. 3 :
              /\ arrays[1][1].px[p][k] = <<0 - 255 * MEAN[k], 255 * STD[k]>>
              /\ arrays[1][1].px[p][k][1] # 0
        /\ arrays[2][1].px[p] = <<0>>

\* C7 as stated: for H < S and W < S the returned sample holds the original
\* content at rows 0:H, columns 0:W, and every position of the returned image
\* and of the returned mask outside that region is zero.
C7_RemainderZero ==
    \A c \in Active :
        (PadCropReturned(c) /\ PadCropSmall(c) /\ SameSize(FileOf(c))) =>
            /\ ContentInPlace(PadCropArrays(c), color_map["PadCrop"], FileOf(c))
            /\ RemainderZero(PadCropArrays(c), FileOf(c))

\* C7 as amended: for H < S and W < S (image and mask both H x W) the
\* returned sample holds, at rows 0:H, columns 0:W and at unchanged
\* positions, the normalized original image and the decoded original mask;
\* outside that region the returned mask is 0 and the returned image holds
\* the normalized value of a zero pixel, (0 - mean) / std, which is not zero.
C7_RemainderNormalizedZero ==
    \A c \in Active :
        (PadCropReturned(c) /\ PadCropSmall(c) /\ SameSize(FileOf(c))) =>
            /\ ContentInPlace(PadCropArrays(c), color_map["PadCrop"], FileOf(c))
            /\ RemainderNormalizedZero(PadCropArrays(c), FileOf(c))

\* PadCrop returned for a small image whose mask holds both classes.
C7_Witness ==
    \E c \in Active :
        /\ PadCropReturned(c) /\ PadCropSmall(c) /\ SameSize(FileOf(c))
        /\ FileOf(c).mask.base = White /\ FileOf(c).mask.spot = Black
        /\ FileOf(c).img.h > 1 /\ FileOf(c).img.w > 1

\* The class index a variant's decode gives a pixel whose channels are the
\* triplet `key`.
OnePixel(key) == [h |-> 1, w |-> 1, ch |-> 3, px |-> [p \in Idx(1, 1) |-> key]]
DecodeOne(s, key) ==
    CASE s = "Tiling" -> IWFullScene_apply_color_map(color_map[s], OnePixel(key))
      [] s = "ResizeCrop" -> IWDataset_decode(color_map[s], OnePixel(key))
      [] OTHER -> TopLeftPad_apply_color_map(COLOR_TO_INDEX, OnePixel(key))

\* C8: every key (r, g, b) of a variant's ColorMap, packed as
\* r<<16 | g<<8 | b and resolved by the variant's decode, gives the class
\* index the ColorMap assigns to it; distinct byte triplets never pack to
\* the same value.
C8_ColorRoundTrip ==
    /\ \A s \in Strategies : \A key \in Keys(color_map[s]) :
          /\ DecodeOne(s, key).err = ""
          /\ DecodeOne(s, key).val.px[<<0, 0>>] = <<Lookup(color_map[s], key)>>
    /\ \A a \in Palette \cup Keys(color_map["Tiling"]) :
          \A b \in Palette \cup Keys(color_map["Tiling"]) :
              a # b => Pack(a) # Pack(b)

\* A call has decoded a mask holding both keys of the ColorMap.
C8_Witness ==
    \E c \in Active : \E i \in DOMAIN Delivered(calls[c]) :
        Delivered(calls[c])[i].mask.values = {<<0>>, <<1>>}

\* C10: Tiling fails with the image-too-small error if and only if H < S or
\* W < S, and then produces no tile; an image with H = S and W = S is accepted
\* and yields exactly one tile.  Stated for readable files with a 3-channel
\* image and a mask of the image's size holding only ColorMap colours.
C10_TooSmall ==
    \A c \in Active :
        (/\ calls[c].strategy = "Tiling" /\ calls[c].pc # "created"
         /\ FileOf(c).img.exists /\ FileOf(c).mask.exists /\ FileOf(c).img.ch = 3
         /\ SameSize(FileOf(c))
         /\ MaskColors(FileOf(c)) \subseteq Keys(color_map["Tiling"]))
        => /\ calls[c].err = ImageTooSmall
                <=> (FileOf(c).img.h < img_size \/ FileOf(c).img.w < img_size)
           /\ calls[c].err = ImageTooSmall => calls[c].out = <<>>
           /\ (FileOf(c).img.h = img_size /\ FileOf(c).img.w = img_size)
                => /\ calls[c].pc \in {"suspended", "exhausted"}
                   /\ Len(calls[c].out) = 1

\* C9: two Tiling calls on the same unchanged file with the same S yield the
\* same tiles in the same order, however their advances interleave and
\* whatever other calls were started, partly consumed or dropped in between:
\* at any moment the shorter output is a prefix of the longer one, and two
\* finished calls have ended alike.
C9_TilingRestartable ==
    \A c1 \in Active : \A c2 \in Active :
        (/\ calls[c1].strategy = "Tiling" /\ calls[c2].strategy = "Tiling"
         /\ calls[c1].file = calls[c2].file)
        => /\ \A i \in DOMAIN calls[c1].out \cap DOMAIN calls[c2].out :
                 calls[c1].out[i] = calls[c2].out[i]
           /\ (calls[c1].pc \in {"exhausted", "raised"} /\ calls[c2].pc \in {"exhausted", "raised"})
                 => /\ calls[c1].out = calls[c2].out
                    /\ calls[c1].pc = calls[c2].pc
                    /\ calls[c1].err = calls[c2].err

\* One Tiling call is finished with several tiles while a second one on the
\* same file is part-way through.
C9_Witness ==
    /\ DOMAIN calls = {1, 2}
    /\ calls[1].strategy = "Tiling" /\ calls[1].pc = "exhausted" /\ Len(calls[1].out) >= 3
    /\ calls[2].strategy = "Tiling" /\ calls[2].pc = "suspended"
    /\ Len(calls[2].out) >= 2 /\ Len(calls[2].out) < Len(calls[1].out)

\* C11: in each of the three strategies, an image file or a mask file that
\* cannot be opened makes the processing fail with the missing-file error and
\* produce no sample.
C11_MissingFileRaises ==
    \A c \in Active :
        (~FileOf(c).img.exists \/ ~FileOf(c).mask.exists)
        => /\ Delivered(calls[c]) = <<>>
           /\ calls[c].pc \in {"created", "raised"}
           /\ calls[c].pc = "raised" => calls[c].err = FileNotFoundError

\* C12: in every strategy a 4-channel image is reduced to 3 channels and a
\* grayscale (2-D) image is expanded to 3 channels before any other step, so
\* the channel count of the file makes no processing fail (no error out of
\* the channel conversion of Tiling, none out of the tensor steps) and every
\* produced image has 3 channels, also for a grayscale image of width 4.
C12_ChannelsNormalized ==
    \A c \in Active :
        (FileOf(c).img.exists /\ FileOf(c).mask.exists)
        => /\ \A i \in DOMAIN Delivered(calls[c]) : Delivered(calls[c])[i].image.ch = 3
           /\ calls[c].err # TorchError
           /\ calls[c].strategy = "Tiling" => calls[c].err # Cv2Error

\* What iterating PadCrop's return value delivers: the items of the returned
\* tuple, in order.
IterateReturned(g) == g.ret

\* The (image, mask) pair of the file of PadCrop call c.
PadCropPair(c) == <<Digest(PadCropImage(c)), Digest(PadCropMask(c))>>

\* C13: PadCrop's return value, iterated as the lazy sequence of the other
\* strategies is, delivers exactly one element, and that element is the
\* (image, mask) pair of the file.
C13_OneElementSequence ==
    \A c \in Active :
        PadCropReturned(c) =>
            /\ Len(IterateReturned(calls[c])) = 1
            /\ IterateReturned(calls[c])[1] = PadCropPair(c)

\* C14: for any ColorMap, also one with class indices above 255, every mask
\* value of a produced sample is the class index the ColorMap assigns to the
\* colour of the source pixel and lies in [0, num_classes).  Stated for
\* Tiling and PadCrop on an S x S file whose mask holds ColorMap colours
\* only, where the one sample covers exactly the pixels of the file.
C14_IndexNeverWraps ==
    \A c \in Active :
        (/\ calls[c].strategy \in {"Tiling", "PadCrop"}
         /\ FileOf(c).img.h = img_size /\ FileOf(c).img.w = img_size
         /\ MaskColors(FileOf(c)) \subseteq Keys(color_map[calls[c].strategy]))
        => \A i \in DOMAIN Delivered(calls[c]) :
              /\ Delivered(calls[c])[i].mask.values =
                     {<<Lookup(color_map[calls[c].strategy], col)>> : col \in MaskColors(FileOf(c))}
              /\ \A v \in Delivered(calls[c])[i].mask.values :
                     v[1] \in 0 .. (Len(color_map[calls[c].strategy]) - 1)

\* A process_data call run alone: the call record after n advances of a
\* caller that is the only one.
RECURSIVE SoloAfter(_, _, _)
SoloStep(g) ==
    IF g.pc \notin {"created", "suspended"} THEN g
    ELSE IF g.strategy = "Tiling"
    THEN TilingRun(g, <<g.row, g.col>>, IWFullScene_open(files[g.file], img_size))
    ELSE IF g.pc = "suspended" THEN [g EXCEPT !.pc = "exhausted"]
    ELSE ResizeCropYield(g, IWDataset_body(color_map["ResizeCrop"], files[g.file], img_size))
SoloAfter(s, f, n) ==
    IF s = "PadCrop"
    THEN PadCropReturn(f, TopLeftPad_process_data(TopLeftPad_table(color_map["PadCrop"]),
                                                  files[f], img_size))
    ELSE IF n = 0 THEN [NoCall EXCEPT !.pc = "created", !.strategy = s, !.file = f]
    ELSE SoloStep(SoloAfter(s, f, n - 1))

\* The number of advances a call record has been through.
StepsTaken(g) ==
    IF g.pc = "created" THEN 0
    ELSE Len(g.out) + (IF g.pc \in {"raised", "exhausted"} THEN 1 ELSE 0)

\* C15: under any interleaving of two process_data calls on different files,
\* of the same or of different strategies, each call has delivered exactly
\* the samples, and met exactly the end or error, that it has after the same
\* number of advances when run alone; and the class attributes both calls
\* read are never written.
C15_CallsAreIndependent ==
    /\ \A c \in Active :
          calls[c] = SoloAfter(calls[c].strategy, calls[c].file, StepsTaken(calls[c]))
    /\ color_map = [s \in Strategies |-> color_map_literal]
    /\ COLOR_TO_INDEX = TopLeftPad_table(color_map_literal)

\* Two calls on different files are both under way, each with samples
\* delivered, one of them a Tiling call past its second tile.
C15_Witness ==
    /\ DOMAIN calls = {1, 2}
    /\ calls[1].file # calls[2].file /\ files[1] # files[2]
    /\ calls[1].pc = "suspended" /\ calls[1].strategy = "Tiling" /\ Len(calls[1].out) >= 2
    /\ calls[2].pc # "none" /\ Delivered(calls[2]) # <<>>

\* The colour of the image file's pixels as red, green, blue.
SourceRGB(f) ==
    IF f.img.ch = 1 THEN <<ImageBGR[2], ImageBGR[2], ImageBGR[2]>>
    ELSE <<ImageBGR[3], ImageBGR[2], ImageBGR[1]>>

\* C16: in every strategy the red channel of the source image is normalized
\* with mean 0.485 and std 0.229, the green channel with 0.456 / 0.224 and
\* the blue channel with 0.406 / 0.225, for every pixel.  Stated on the
\* values of each content pixel of a delivered image, wherever the three
\* channels are placed in it.
C16_NormalizedInRGBOrder ==
    \A c \in Active : \A i \in DOMAIN Delivered(calls[c]) :
        \A v \in Delivered(calls[c])[i].image.values \ {NormalizePixel(<<0, 0, 0>>)} :
            {v[k] : k \in 1 .. 3} = {NormalizeValue(SourceRGB(FileOf(c))[k], k) : k \in 1 .. 3}

\* The i-th origin (from 1) of the row-major enumeration of
\* range(0, H - S + 1, step) x range(0, W - S + 1, step).
RowMajorOrigin(i, width, size, step) ==
    <<((i - 1) \div RangeLen(width - size + 1, step)) * step,
      ((i - 1) % RangeLen(width - size + 1, step)) * step>>

\* C17: Tiling emits its tiles in row-major order of their origins (all column
\* origins of a row origin, ascending, before any tile of the next row origin,
\* which is S // 2 further down), every emitted origin satisfies
\* row + S <= H and col + S <= W, and no origin is emitted twice.
C17_RowMajorOrder ==
    \A c \in Active :
        calls[c].strategy = "Tiling" =>
            /\ \A i \in DOMAIN calls[c].out :
                  /\ calls[c].out[i].origin =
                        RowMajorOrigin(i, FileOf(c).img.w, img_size, img_size \div 2)
                  /\ calls[c].out[i].origin[1] + img_size <= FileOf(c).img.h
                  /\ calls[c].out[i].origin[2] + img_size <= FileOf(c).img.w
            /\ \A i \in DOMAIN calls[c].out : \A j \in DOMAIN calls[c].out :
                  i # j => calls[c].out[i].origin # calls[c].out[j].origin

\* A Tiling call has gone through a first row of several tiles and is in a
\* later row.
C17_Witness ==
    \E c \in Active :
        /\ calls[c].strategy = "Tiling" /\ Len(calls[c].out) >= 5
        /\ calls[c].out[3].origin[1] = 0
        /\ calls[c].out[Len(calls[c].out)].origin[1] > 0
        /\ calls[c].out[Len(calls[c].out)].origin[2] > 0

\* |n - side * size / longest| <= 1/2: n is side * size / longest up to
\* rounding.
ScaledSide(n, side, size, longest) ==
    /\ 2 * (n * longest - side * size) <= longest
    /\ 2 * (side * size - n * longest) <= longest

\* The content of both returned arrays (the pixels that are not padding; the
\* mask file is all white) fills exactly rows 0:nh, columns 0:nw, for sides
\* nh, nw that are the image's sides scaled by size / max(height, width),
\* the longer of them equal to size.
ResizedByOneFactor(arrays, height, width, size) ==
    \E nh \in 0 .. size : \E nw \in 0 .. size :
        /\ Max(nh, nw) = size
        /\ ScaledSide(nh, height, size, Max(height, width))
        /\ ScaledSide(nw, width, size, Max(height, width))
        /\ ContentRegion(arrays[1][1]) = Idx(nh, nw)
        /\ {p \in DOMAIN arrays[2][1].px : arrays[2][1].px[p] = <<1>>} = Idx(nh, nw)

PadCropLarge(c) == FileOf(c).img.h >= img_size \/ FileOf(c).img.w >= img_size
MaskAllWhite(f) == f.mask.base = White /\ f.mask.spot = White

\* C18: in PadCrop, whenever H >= S or W >= S, image and mask are resized by
\* the single factor S / max(H, W) to the same new dimensions; the longer
\* side of the resized content is exactly S and the shorter at most S.
C18_PadResizeFactor ==
    \A c \in Active :
        (PadCropReturned(c) /\ PadCropLarge(c) /\ MaskAllWhite(FileOf(c)))
        => ResizedByOneFactor(PadCropArrays(c), FileOf(c).img.h, FileOf(c).img.w, img_size)

\* PadCrop returned for a non-square image larger than S whose shorter side
\* is scaled down to less than S, with a mask of another size than the image.
C18_Witness ==
    \E c \in Active :
        /\ PadCropReturned(c) /\ MaskAllWhite(FileOf(c))
        /\ FileOf(c).img.h > img_size /\ FileOf(c).img.w > FileOf(c).img.h
        /\ ~SameSize(FileOf(c))
        /\ img_size >= 3

\* The mask ResizeCrop would deliver if the mask were resized first
\* (nearest-neighbour, to S x S), then binarized, then decoded.
ResizeThenDecode(cm, f, size) ==
    IWDataset_decode(cm, IWDataset_binarize(resize_nearest(BGR2RGB(imread_color(f)), size, size))).val

\* C19: in ResizeCrop the mask is resized (nearest-neighbour), then
\* binarized, then colour-decoded: the delivered mask is the decode of the
\* already resized mask.
C19_DecodeAfterResize ==
    \A c \in Active :
        calls[c].strategy = "ResizeCrop" =>
            \A i \in DOMAIN calls[c].out :
                calls[c].out[i].mask =
                    Digest(ResizeThenDecode(color_map["ResizeCrop"], FileOf(c), img_size))

\* The packed values of the mask pixels of file f, as the strategy of call c
\* packs them, that are no key of its table.
UnknownPacked(s, f) ==
    {Pack(IF s = "ResizeCrop" THEN IWDataset_binarize(OnePixel(col)).px[<<0, 0>>] ELSE Bgr(col)) :
        col \in MaskColors(f)}
    \ TableKeys(PackedTable(color_map[s]))

\* C20: in every strategy the error raised for an unknown mask colour carries
\* the distinct offending packed colour values and the path of the mask file.
C20_UnknownColorPayload ==
    \A c \in Active :
        calls[c].err = UnknownColor =>
            /\ calls[c].args.values # {}
            /\ calls[c].args.values \subseteq UnknownPacked(calls[c].strategy, FileOf(c))
            /\ calls[c].args.path = <<FileOf(c).mask>>

\* Every call under way is where the same call is when run alone.
AsIfRunAlone ==
    \A c \in Active :
        calls[c] = SoloAfter(calls[c].strategy, calls[c].file, StepsTaken(calls[c]))

\* The step drops the Tiling generator of slot c before its end.
CancelsTiling(c) ==
    /\ calls[c].strategy = "Tiling" /\ calls[c].pc \in {"created", "suspended"}
    /\ calls'[c].pc = "none"

\* C21: a consumer that stops advancing a Tiling iterator after any number
\* of tiles leaves everything outside the iterator unchanged (files, sample
\* size, ColorMap, packed table, the other calls), leaves nothing of the
\* iterator behind, and every call made once an iterator was abandoned, on
\* the same or another file, goes as it goes run alone.
C21_CancelHasNoEffect ==
    /\ [][\A c \in DOMAIN calls :
             CancelsTiling(c) =>
                 /\ calls' = [calls EXCEPT ![c] = NoCall]
                 /\ UNCHANGED <<files, img_size, color_map, COLOR_TO_INDEX>>]_vars
    /\ [](abandoned => AsIfRunAlone)

\* After a Tiling iterator was abandoned, a later Tiling call on the second
\* file has been iterated to its end over several tiles.
C21_Witness ==
    /\ abandoned
    /\ calls[1].strategy = "Tiling" /\ calls[1].file = 2
    /\ calls[1].pc = "exhausted" /\ Len(calls[1].out) >= 2

\* The errors of Tiling's colour decode.
DecodeErrors == {UnknownColor, VectorizeNone, VectorizeEmpty}

\* The decode of the mask of the k-th tile of file f.
DecodeOfTile(cm, f, k, size) ==
    IWFullScene_apply_color_map(cm,
        Slice(imread_color(f), RowMajorOrigin(k, f.img.w, size, size \div 2)[1],
              RowMajorOrigin(k, f.img.w, size, size \div 2)[2], size))

\* A Tiling call that has raised did so on its first advance, before any
\* tile, for every error but a decode error; a decode error was raised on
\* the advance of the tile whose decode fails.
RaisedWhenDue(g) ==
    (g.strategy = "Tiling" /\ g.pc = "raised") =>
        IF g.err \in DecodeErrors
        THEN DecodeOfTile(color_map["Tiling"], files[g.file], Len(g.out) + 1, img_size).err = g.err
        ELSE g.out = <<>>

\* C22: in Tiling all work is deferred to iteration.  The call itself only
\* creates the iterator, whatever the files are; the missing-file and the
\* too-small check fail on the first advance, before any tile; each advance
\* delivers at most one tile, and a mask colour error of tile k is raised on
\* the k-th advance, after k - 1 tiles were delivered.
C22_TilingIsLazy ==
    /\ [][\A c \in DOMAIN calls :
             /\ (calls[c].pc = "none" /\ calls'[c].strategy = "Tiling")
                   => calls'[c] = [NoCall EXCEPT !.pc = "created", !.strategy = "Tiling",
                                                 !.file = calls'[c].file]
             /\ (calls[c].strategy = "Tiling" /\ calls'[c].strategy = "Tiling")
                   => Len(calls'[c].out) <= Len(calls[c].out) + 1]_vars
    /\ [](\A c \in Active : RaisedWhenDue(calls[c]))

\* A Tiling call delivered several tiles and then raised the colour error of
\* a later tile.
C22_Witness ==
    \E c \in Active :
        /\ calls[c].strategy = "Tiling" /\ calls[c].pc = "raised"
        /\ calls[c].err \in DecodeErrors /\ Len(calls[c].out) >= 3

\* A readable file pair with a 3-channel image, a mask of the image's size
\* and ColorMap colours only.
PlainFile(s, f) ==
    /\ f.img.exists /\ f.mask.exists /\ f.img.ch = 3
    /\ SameSize(f)
    /\ MaskColors(f) \subseteq Keys(color_map[s])

\* C23: for every S >= 1, S = 1 included, and every image with H >= S and
\* W >= S, the stride S // 2 of Tiling is a positive step and the iteration
\* yields at least one tile, the first with origin (0, 0).
C23_StrideIsPositive ==
    \A c \in Active :
        (/\ calls[c].strategy = "Tiling" /\ calls[c].pc # "created"
         /\ PlainFile("Tiling", FileOf(c))
         /\ FileOf(c).img.h >= img_size /\ FileOf(c).img.w >= img_size)
        => /\ TilingStride(img_size) > 0
           /\ Len(calls[c].out) >= 1
           /\ calls[c].out[1].origin = <<0, 0>>

\* C24: in ResizeCrop every mask pixel is (0,0,0) or (255,255,255) after the
\* binarize step, both ColorMap keys; so for every readable mask, whatever
\* its colours, the unknown-colour error is never raised and exactly one
\* sample is yielded.
C24_BinarizeMakesDecodeTotal ==
    \A c \in Active :
        (/\ calls[c].strategy = "ResizeCrop" /\ calls[c].pc # "created"
         /\ FileOf(c).img.exists /\ FileOf(c).mask.exists)
        => /\ \A col \in MaskColors(FileOf(c)) :
                 IWDataset_binarize(OnePixel(col)).px[<<0, 0>>] \in {Black, White}
           /\ {Black, White} \subseteq Keys(color_map["ResizeCrop"])
           /\ calls[c].err # UnknownColor
           /\ Len(calls[c].out) = 1

\* C25: in PadCrop, whenever a resize occurs (H >= S or W >= S), both target
\* dimensions round(H * S / max(H, W)) and round(W * S / max(H, W)) are at
\* least 1, so the resize target is never empty and the resize does not fail.
C25_ResizeTargetNotEmpty ==
    \A c \in Active :
        (/\ calls[c].strategy = "PadCrop"
         /\ FileOf(c).img.exists /\ FileOf(c).mask.exists
         /\ PadResizes(FileOf(c).img.h, FileOf(c).img.w, img_size))
        => /\ PadNewSize(FileOf(c).img.h, FileOf(c).img.w, img_size)[1] >= 1
           /\ PadNewSize(FileOf(c).img.h, FileOf(c).img.w, img_size)[2] >= 1
           /\ calls[c].err # Cv2Error

====
